---- MODULE Spec2Model ----
(***************************************************************************)
(* The Timidity MIDI backend of SDL_mixer (src/codecs/music_timidity.c):   *)
(* one codec session (TIMIDITY_Music), its construction and teardown, the  *)
(* playback operations and the pull protocol TIMIDITY_GetSome.             *)
(*                                                                         *)
(* Audio is counted in bytes.  A byte of the song is identified by its     *)
(* offset in the song (1..song_length), so that delivery order, loss and   *)
(* duplication are visible.  The Timidity library and the SDL audio stream *)
(* are not part of music_timidity.c; they are modelled at their interface. *)
(***************************************************************************)
EXTENDS Integers, Sequences, FiniteSets, TLC

VARIABLES
    backend,             \* the Timidity library: its surroundings, the last Open
    music_spec_channels, \* channels of the global target spec (music_spec)
    handle,              \* what the caller holds: "none", "music", "null"
    music,               \* allocation state of the record and of its pointers
    play_count,          \* music->play_count
    song_playing,        \* the decoder's activity flag (Timidity_IsActive)
    song_pos,            \* the decoder's position, in bytes from the start
    song_length,         \* decodable bytes of one play-through
    stream,              \* bytes buffered in music->stream, oldest first
    volume,              \* music->volume
    song_amp,            \* the decoder's own volume (Timidity_SetVolume)
    specs,               \* channels the song and the stream were created with
    call,                \* the last operation and what it returned
    hist                 \* bookkeeping since the last Play by the user

vars == <<backend, music_spec_channels, handle, music, play_count, song_playing,
          song_pos, song_length, stream, volume, song_amp, specs, call, hist>>

----------------------------------------------------------------------------
(* Bounds of the model *)

\* longest song, in bytes
MaxSongLen == 4
\* largest byte count a caller asks for in one GetSome call
MaxRequest == 3
\* frames of one transfer unit (4096 in the code, scaled down)
BufferFrames == 1
\* bytes of one sample of the decoder's format (SDL_AUDIO_BITSIZE / 8)
SampleBytes == 1
\* natural completions followed within one session
MaxCompletions == 3

TargetChannels == {2, 6}
VolumeLevels == {-1, 0, 64, 128, 129}
PlayCounts == {-2, -1, 0, 1, 2}
Requests == 1..MaxRequest
SongLengths == 1..MaxSongLen
SeekPositions == 0..MaxSongLen
FailPoints == {"none", "calloc", "load", "stream", "buffer"}

Min(a, b) == IF a < b THEN a ELSE b

----------------------------------------------------------------------------
(* The Timidity library, at its interface *)

\* Timidity_PlaySome: nothing when the song is not active; a full unit while
\* one is left; otherwise what is left, and the song becomes inactive.
Timidity_PlaySome(playing, pos, length, len) ==
    IF ~playing
    THEN [amount |-> 0, playing |-> FALSE, pos |-> pos]
    ELSE IF length - pos >= len
    THEN [amount |-> len, playing |-> TRUE, pos |-> pos + len]
    ELSE [amount |-> length - pos, playing |-> FALSE, pos |-> length]

\* the bytes a call produced that moved the decoder from pos by amount
Produced(pos, amount) == [i \in 1..amount |-> pos + i]

\* the decoder's volume when a song is loaded
DefaultAmplification == 70

\* Timidity_SetVolume: the decoder takes the level over
Timidity_SetVolume(level) == level

\* Timidity_Seek: the position (here in bytes) clipped to the song
Timidity_Seek(length, ms) == Min(ms, length)

\* Timidity_GetSongTime: the position of the song, in the unit of Timidity_Seek
Timidity_GetSongTime(pos) == pos

----------------------------------------------------------------------------
(* The SDL audio stream, at its interface *)

\* SDL_GetAudioStreamData: the number of bytes handed out
SDL_GetAudioStreamData(q, bytes) == Min(bytes, Len(q))

\* what is left in the stream after n bytes were handed out
StreamRest(q, n) == SubSeq(q, n + 1, Len(q))

----------------------------------------------------------------------------
(* TIMIDITY_Open and TIMIDITY_Close *)

TIMIDITY_CFG == "C:\\TIMIDITY\\TIMIDITY.CFG"
TIMIDITY_CFG_ETC == "/etc/timidity.cfg"
TIMIDITY_CFG_FREEPATS == "/etc/timidity/freepats.cfg"
\* Timidity_Init(NULL): the library's default configuration
BuiltinCfg == "NULL"

Platforms == {"win32", "unix"}
\* what the environment variable TIMIDITY_CFG may hold ("none": not set)
EnvSettings == {"none", "env.cfg"}
\* what Mix_GetTimidityCfg may return ("none": NULL)
UserSettings == {"none", "user.cfg"}
Configs == {"env.cfg", "user.cfg", TIMIDITY_CFG, TIMIDITY_CFG_ETC,
            TIMIDITY_CFG_FREEPATS, BuiltinCfg}

\* Timidity_Init: 0 when the configuration can be read, -1 otherwise
Timidity_Init(works, c) == IF c \in works THEN 0 ELSE -1

\* cfg: the environment variable, or else the user's setting
ChosenCfg(env, user) == IF env # "none" THEN env ELSE user

\* a candidate tried whatever came before
TryAlways(works, st, c) ==
    [rc |-> Timidity_Init(works, c), tried |-> Append(st.tried, c)]

\* if (rc < 0) rc = Timidity_Init(c);
Try(works, st, c) ==
    IF st.rc < 0
    THEN [rc |-> Timidity_Init(works, c), tried |-> Append(st.tried, c)]
    ELSE st

\* TIMIDITY_Open: the value returned and the configurations handed to
\* Timidity_Init, in order
TIMIDITY_Open(platform, env, user, works) ==
    LET cfg == ChosenCfg(env, user)
        s0  == [rc |-> -1, tried |-> <<>>]
        s1  == IF platform = "win32" THEN Try(works, s0, TIMIDITY_CFG) ELSE s0
        s2  == IF platform = "unix" THEN Try(works, s1, TIMIDITY_CFG_ETC) ELSE s1
        s3  == IF platform = "unix" THEN Try(works, s2, TIMIDITY_CFG_FREEPATS) ELSE s2
    IN  IF cfg # "none"
        THEN [rc |-> Timidity_Init(works, cfg), tried |-> <<cfg>>]
        ELSE Try(works, s3, BuiltinCfg)

\* platform, env, user, works: the build, the environment variable, the
\* user's setting, the configurations that can be read; opened, tried: the
\* library is initialised, what the last Open handed to Timidity_Init
ClosedBackend(platform, env, user, works) ==
    [platform |-> platform, env |-> env, user |-> user, works |-> works,
     opened |-> FALSE, tried |-> <<>>]

OpenResult(b) ==
    LET r == TIMIDITY_Open(b.platform, b.env, b.user, b.works)
    IN  [b EXCEPT !.opened = (r.rc >= 0), !.tried = r.tried]

\* a unix build without settings on which every configuration can be read,
\* after TIMIDITY_Open
OpenedBackend == OpenResult(ClosedBackend("unix", "none", "none", Configs))

----------------------------------------------------------------------------
(* TIMIDITY_CreateFromIO and TIMIDITY_Delete *)

NullMusic == [self |-> "null", song |-> "null", stream |-> "null", buffer |-> "null"]

\* free() of a pointer: a live block is released, anything else is an error
Release(p) == IF p = "live" THEN "freed" ELSE "invalid_free"

\* a teardown that forgets the stream
TIMIDITY_DeleteLeaky(m) ==
    [self   |-> Release(m.self),
     song   |-> IF m.song # "null" THEN Release(m.song) ELSE m.song,
     stream |-> m.stream,
     buffer |-> IF m.buffer # "null" THEN Release(m.buffer) ELSE m.buffer]

TIMIDITY_Delete(m) ==
    [self   |-> Release(m.self),
     song   |-> IF m.song # "null" THEN Release(m.song) ELSE m.song,
     stream |-> IF m.stream # "null" THEN Release(m.stream) ELSE m.stream,
     buffer |-> IF m.buffer # "null" THEN Release(m.buffer) ELSE m.buffer]

\* a stream asked for from two channels on
NeedStreamFromTwo(channels) == channels >= 2

\* need_stream: the target has more channels than the decoder can produce
NeedStream(channels) == channels > 2

\* music->buffer_size, for the two-channel spec the decoder is loaded with
buffer_size == BufferFrames * SampleBytes * 2

MIX_MAX_VOLUME == 128

\* the spec the song is loaded with: the target, with at most two channels
LoadChannels(channels) == IF channels > 2 THEN 2 ELSE channels

NoSpecs == [song |-> 0, stream_src |-> 0, stream_dst |-> 0]

\* the channels of the song (Timidity_LoadSong(src, &spec)) and of the two
\* ends of the stream (SDL_CreateAudioStream(&spec, &music_spec)) of a
\* session that was created for a target of `channels` channels
CreateSpecs(channels) ==
    [song       |-> LoadChannels(channels),
     stream_src |-> IF NeedStream(channels) THEN LoadChannels(channels) ELSE 0,
     stream_dst |-> IF NeedStream(channels) THEN channels ELSE 0]

\* a construction that does not look at the result of the buffer allocation
CreateResultBufferUnchecked(channels, fail) ==
    LET m0 == [NullMusic EXCEPT !.self = "live"]
        m1 == [m0 EXCEPT !.song = "live"]
        m2 == [m1 EXCEPT !.stream = "live"]
        m3 == [m2 EXCEPT !.buffer = "live"]
    IN  IF fail = "calloc" THEN [ok |-> FALSE, m |-> NullMusic]
        ELSE IF fail = "load" THEN [ok |-> FALSE, m |-> TIMIDITY_Delete(m0)]
        ELSE IF ~NeedStream(channels) THEN [ok |-> TRUE, m |-> m1]
        ELSE IF fail = "stream" THEN [ok |-> FALSE, m |-> TIMIDITY_Delete(m1)]
        ELSE IF fail = "buffer" THEN [ok |-> TRUE, m |-> m2]
        ELSE [ok |-> TRUE, m |-> m3]

\* The record as TIMIDITY_CreateFromIO leaves it when the step `fail` fails
\* ("none": nothing fails), and whether it returns the record.
CreateResult(channels, fail) ==
    LET m0 == [NullMusic EXCEPT !.self = "live"]
        m1 == [m0 EXCEPT !.song = "live"]
        m2 == [m1 EXCEPT !.stream = "live"]
        m3 == [m2 EXCEPT !.buffer = "live"]
    IN  IF fail = "calloc" THEN [ok |-> FALSE, m |-> NullMusic]
        ELSE IF fail = "load" THEN [ok |-> FALSE, m |-> TIMIDITY_Delete(m0)]
        ELSE IF ~NeedStream(channels) THEN [ok |-> TRUE, m |-> m1]
        ELSE IF fail = "stream" THEN [ok |-> FALSE, m |-> TIMIDITY_Delete(m1)]
        ELSE IF fail = "buffer" THEN [ok |-> FALSE, m |-> TIMIDITY_Delete(m2)]
        ELSE [ok |-> TRUE, m |-> m3]

\* op: the operation; for GetSome: bytes asked for, value returned, *done,
\* whether the decoder was invoked, the bytes written to the caller's buffer,
\* what SDL_PutAudioStreamData answered ("none": not called); for
\* CreateFromIO: the step that failed; for Seek: the position asked for
NoCall == [op |-> "none", bytes |-> 0, ret |-> 0, done |-> FALSE, decoded |-> FALSE,
           out |-> <<>>, put |-> "none", fail |-> "none", ms |-> 0]

\* started: Play was called; startCount: with this count; pure: only GetSome
\* calls since; clean: the stream was empty at that Play; pushFailed, stopped:
\* a Push failed, Stop was called since; stoppedEarly: Stop was called while
\* the count was nonzero and the decoder active.  While the session is pure:
\* completions counts the decoder's short productions, returned sums the
\* byte counts returned, delivered lists the bytes handed to the caller, ends
\* counts the times the decoder went from active to inactive in a call of a
\* session started with a positive count.
NoHist == [started |-> FALSE, startCount |-> 0, pure |-> FALSE, clean |-> FALSE,
           pushFailed |-> FALSE, stopped |-> FALSE, stoppedEarly |-> FALSE,
           completions |-> 0, returned |-> 0, delivered |-> <<>>, ends |-> 0]

Impure(h) == [h EXCEPT !.pure = FALSE, !.completions = 0, !.returned = 0,
                       !.delivered = <<>>, !.ends = 0]

----------------------------------------------------------------------------
(* TIMIDITY_Play, and the decisions of TIMIDITY_GetSome *)

\* a Play that starts the song where it is
TIMIDITY_PlayNoSeek(n, length) ==
    [play_count |-> n, song_playing |-> TRUE, song_pos |-> song_pos]

\* TIMIDITY_Play: set the count, Timidity_Start, then TIMIDITY_Seek(0.0)
TIMIDITY_Play(n, length) ==
    [play_count |-> n, song_playing |-> TRUE, song_pos |-> Timidity_Seek(length, 0)]

\* only an error of the stream counts as a result
DrainHitErrorOnly(hasStream, filled) == hasStream /\ filled < 0

\* the fast path: the stream exists and handed out something
DrainHit(hasStream, filled) == hasStream /\ filled # 0

\* no play-through left and the decoder at rest
AllDoneAtRest(fast, pc) == ~fast /\ pc = 0 /\ ~song_playing

\* the count tested before the stream is drained
AllDoneEarly(fast, pc) == pc = 0

\* "All done": the fast path was not taken and no play-through is left
AllDone(fast, pc) == ~fast /\ pc = 0

\* the unit the decoder is asked for
Expected(hasStream, bytes) == IF hasStream THEN buffer_size ELSE bytes

\* a full unit taken for the end of the song
ShortProductionOffByOne(amount, expected) == amount <= expected

\* the decoder came up short of the unit: end of the song
ShortProduction(amount, expected) == amount < expected

\* no special case for the last play-through
FinalPlayNever(pc) == FALSE

\* on a short production: the last play-through ends without a restart
FinalPlay(pc) == pc = 1

\* the infinite sentinel lost on restart
RestartCountNoSentinel(pc) == IF pc > 0 THEN pc - 1 ELSE 0

\* on a short production: the count playback is restarted with
RestartCount(pc) == IF pc > 0 THEN pc - 1 ELSE -1

\* a failed SDL_PutAudioStreamData passed over
PutFailedIgnored(hasStream, pushOk) == FALSE

\* if (!SDL_PutAudioStreamData(...)) return -1; only with a stream
PutFailed(hasStream, pushOk) == hasStream /\ ~pushOk

\* the produced amount returned in stream mode too
GetSomeReturnAmount(hasStream, amount) == amount

\* the value of a call that went to the decoder
GetSomeReturn(hasStream, amount) == IF hasStream THEN 0 ELSE amount

\* One call of TIMIDITY_GetSome(music, data, bytes, &done) in the current
\* state; pushOk is the outcome of SDL_PutAudioStreamData.
GetSomeOutcome(bytes, pushOk) ==
    LET hasStream == music.stream # "null"
        filled    == IF hasStream THEN SDL_GetAudioStreamData(stream, bytes) ELSE 0
        fast      == DrainHit(hasStream, filled)
        allDone   == AllDone(fast, play_count)
        decode    == ~fast /\ ~allDone
        expected  == Expected(hasStream, bytes)
        d         == Timidity_PlaySome(song_playing, song_pos, song_length, expected)
        produced  == Produced(song_pos, d.amount)
        pushFail  == decode /\ PutFailed(hasStream, pushOk)
        short     == decode /\ ~pushFail /\ ShortProduction(d.amount, expected)
        restart   == short /\ ~FinalPlay(play_count)
        p         == TIMIDITY_Play(RestartCount(play_count), song_length)
    IN  [ret          |-> IF fast THEN filled
                          ELSE IF allDone THEN 0
                          ELSE IF pushFail THEN -1
                          ELSE GetSomeReturn(hasStream, d.amount),
         done         |-> allDone,
         decoded      |-> decode,
         ended        |-> decode /\ d.amount < expected,
         finished     |-> decode /\ song_playing /\ ~d.playing,
         put          |-> IF decode /\ hasStream
                          THEN (IF pushOk THEN "ok" ELSE "failed")
                          ELSE "none",
         out          |-> IF decode /\ ~hasStream THEN produced
                          ELSE SubSeq(stream, 1, filled),
         stream       |-> IF decode /\ hasStream /\ pushOk
                          THEN StreamRest(stream, filled) \o produced
                          ELSE StreamRest(stream, filled),
         play_count   |-> IF restart THEN p.play_count
                          ELSE IF short THEN 0
                          ELSE play_count,
         song_playing |-> IF restart THEN p.song_playing
                          ELSE IF decode THEN d.playing
                          ELSE song_playing,
         song_pos     |-> IF restart THEN p.song_pos
                          ELSE IF decode THEN d.pos
                          ELSE song_pos]

----------------------------------------------------------------------------
(* The state machine *)

Init ==
    /\ backend = OpenedBackend
    /\ music_spec_channels \in TargetChannels
    /\ handle = "none"
    /\ music = NullMusic
    /\ play_count = 0
    /\ song_playing = FALSE
    /\ song_pos = 0
    /\ song_length = 0
    /\ stream = <<>>
    /\ volume = 0
    /\ song_amp = 0
    /\ specs = NoSpecs
    /\ call = NoCall
    /\ hist = NoHist

CreateFromIO(fail, len) ==
    /\ handle # "music"
    /\ LET r == CreateResult(music_spec_channels, fail)
       IN  /\ handle' = IF r.ok THEN "music" ELSE "null"
           /\ music' = r.m
           /\ song_length' = IF r.ok THEN len ELSE 0
           /\ volume' = IF r.ok THEN MIX_MAX_VOLUME ELSE 0
           /\ song_amp' = IF r.ok THEN DefaultAmplification ELSE 0
           /\ specs' = IF r.ok THEN CreateSpecs(music_spec_channels) ELSE NoSpecs
    /\ play_count' = 0
    /\ song_playing' = FALSE
    /\ song_pos' = 0
    /\ stream' = <<>>
    /\ call' = [NoCall EXCEPT !.op = "CreateFromIO", !.fail = fail]
    /\ hist' = NoHist
    /\ UNCHANGED <<backend, music_spec_channels>>

Delete ==
    /\ handle = "music"
    /\ music' = TIMIDITY_Delete(music)
    /\ handle' = "none"
    /\ play_count' = 0
    /\ song_playing' = FALSE
    /\ song_pos' = 0
    /\ song_length' = 0
    /\ stream' = <<>>
    /\ volume' = 0
    /\ song_amp' = 0
    /\ specs' = NoSpecs
    /\ call' = [NoCall EXCEPT !.op = "Delete"]
    /\ hist' = NoHist
    /\ UNCHANGED <<backend, music_spec_channels>>

Play(n) ==
    /\ handle = "music"
    /\ LET p == TIMIDITY_Play(n, song_length)
       IN  /\ play_count' = p.play_count
           /\ song_playing' = p.song_playing
           /\ song_pos' = p.song_pos
    /\ call' = [NoCall EXCEPT !.op = "Play"]
    /\ hist' = [started |-> TRUE, startCount |-> n, pure |-> TRUE,
                clean |-> (stream = <<>>), pushFailed |-> FALSE, stopped |-> FALSE,
                stoppedEarly |-> FALSE, completions |-> 0, returned |-> 0,
                delivered |-> <<>>, ends |-> 0]
    /\ UNCHANGED <<backend, music_spec_channels, handle, music, song_length, stream>>
    /\ UNCHANGED <<volume, song_amp, specs>>

\* TIMIDITY_Stop: Timidity_Stop makes the song inactive
Stop ==
    /\ handle = "music"
    /\ song_playing' = FALSE
    /\ call' = [NoCall EXCEPT !.op = "Stop"]
    /\ hist' = [Impure(hist) EXCEPT
                  !.stopped = TRUE,
                  !.stoppedEarly = @ \/ (play_count # 0 /\ song_playing)]
    /\ UNCHANGED <<backend, music_spec_channels, handle, music, play_count, song_pos,
                   song_length, stream, volume, song_amp, specs>>

\* TIMIDITY_Seek: ms is (Uint32)(position * 1000)
Seek(ms) ==
    /\ handle = "music"
    /\ song_pos' = Timidity_Seek(song_length, ms)
    /\ call' = [NoCall EXCEPT !.op = "Seek", !.ms = ms]
    /\ hist' = Impure(hist)
    /\ UNCHANGED <<backend, music_spec_channels, handle, music, play_count, song_playing,
                   song_length, stream, volume, song_amp, specs>>

\* TIMIDITY_SetVolume: the level is stored and handed to the decoder
SetVolume(level) ==
    /\ handle = "music"
    /\ volume' = level
    /\ song_amp' = Timidity_SetVolume(level)
    /\ call' = [NoCall EXCEPT !.op = "SetVolume"]
    /\ UNCHANGED <<backend, music_spec_channels, handle, music, play_count, song_playing,
                   song_pos, song_length, stream, specs, hist>>

\* TIMIDITY_GetVolume
TIMIDITY_GetVolume == volume

\* TIMIDITY_Tell: the decoder's position
TIMIDITY_Tell == Timidity_GetSongTime(song_pos)

\* TIMIDITY_IsPlaying: Timidity_IsActive of the song
TIMIDITY_IsPlaying == song_playing

\* the program's part of one TIMIDITY_GetSome call
GetSomeStep(bytes, pushOk) ==
    LET o == GetSomeOutcome(bytes, pushOk)
    IN  /\ handle = "music"
        /\ play_count' = o.play_count
        /\ song_playing' = o.song_playing
        /\ song_pos' = o.song_pos
        /\ stream' = o.stream
        /\ call' = [op |-> "GetSome", bytes |-> bytes, ret |-> o.ret,
                    done |-> o.done, decoded |-> o.decoded, out |-> o.out,
                    put |-> o.put, fail |-> "none", ms |-> 0]
        /\ UNCHANGED <<backend, music_spec_channels, handle, music, song_length>>
        /\ UNCHANGED <<volume, song_amp, specs>>

\* the decoder reached the end of the song in this call, in a session that
\* was started with a positive count
Ends(o) == IF o.finished /\ hist.startCount > 0 THEN 1 ELSE 0

GetSome(bytes, pushOk) ==
    /\ hist.completions < MaxCompletions
    /\ GetSomeStep(bytes, pushOk)
    /\ LET o == GetSomeOutcome(bytes, pushOk)
       IN  hist' = IF ~hist.pure
                   THEN [hist EXCEPT !.pushFailed = @ \/ o.ret < 0]
                   ELSE [hist EXCEPT
                           !.pushFailed = @ \/ o.ret < 0,
                           !.completions = @ + (IF o.ended THEN 1 ELSE 0),
                           !.returned = @ + (IF o.ret > 0 THEN o.ret ELSE 0),
                           !.delivered = @ \o o.out,
                           !.ends = @ + Ends(o)]

Next ==
    \/ \E fail \in FailPoints, len \in SongLengths : CreateFromIO(fail, len)
    \/ Delete
    \/ \E n \in PlayCounts : Play(n)
    \/ Stop
    \/ \E ms \in SeekPositions : Seek(ms)
    \/ \E bytes \in Requests, pushOk \in BOOLEAN : GetSome(bytes, pushOk)

Spec == Init /\ [][Next]_vars

----------------------------------------------------------------------------
(* The volume of a session.  SetVolume reads and writes nothing that the   *)
(* playback operations use, so it is followed in a specification of its    *)
(* own, next to the operations that create, start and destroy a session.   *)

VolumeNext ==
    \/ \E fail \in FailPoints, len \in SongLengths : CreateFromIO(fail, len)
    \/ Delete
    \/ \E n \in PlayCounts : Play(n)
    \/ Stop
    \/ \E level \in VolumeLevels : SetVolume(level)

VolumeSpec == Init /\ [][VolumeNext]_vars

----------------------------------------------------------------------------
(* Opening and closing the backend, before any session exists *)

OpenInit ==
    /\ \E platform \in Platforms, env \in EnvSettings, user \in UserSettings,
          works \in SUBSET Configs :
            backend = ClosedBackend(platform, env, user, works)
    /\ music_spec_channels \in TargetChannels
    /\ handle = "none"
    /\ music = NullMusic
    /\ play_count = 0
    /\ song_playing = FALSE
    /\ song_pos = 0
    /\ song_length = 0
    /\ stream = <<>>
    /\ volume = 0
    /\ song_amp = 0
    /\ specs = NoSpecs
    /\ call = NoCall
    /\ hist = NoHist

Session == <<music_spec_channels, handle, music, play_count, song_playing,
             song_pos, song_length, stream, volume, song_amp, specs, hist>>

Open ==
    /\ ~backend.opened
    /\ backend' = OpenResult(backend)
    /\ call' = [NoCall EXCEPT
                  !.op = "Open",
                  !.ret = TIMIDITY_Open(backend.platform, backend.env,
                                        backend.user, backend.works).rc]
    /\ UNCHANGED Session

\* TIMIDITY_Close: Timidity_Exit
Close ==
    /\ backend.opened
    /\ backend' = [backend EXCEPT !.opened = FALSE]
    /\ call' = [NoCall EXCEPT !.op = "Close"]
    /\ UNCHANGED Session

\* the environment variable TIMIDITY_CFG is set or unset
Setenv(v) ==
    /\ backend' = [backend EXCEPT !.env = v]
    /\ call' = [NoCall EXCEPT !.op = "Setenv"]
    /\ UNCHANGED Session

\* Mix_SetTimidityCfg
SetTimidityCfg(v) ==
    /\ backend' = [backend EXCEPT !.user = v]
    /\ call' = [NoCall EXCEPT !.op = "SetTimidityCfg"]
    /\ UNCHANGED Session

OpenNext ==
    \/ Open
    \/ Close
    \/ \E v \in EnvSettings : Setenv(v)
    \/ \E v \in UserSettings : SetTimidityCfg(v)

OpenSpec == OpenInit /\ [][OpenNext]_vars

----------------------------------------------------------------------------
(* A session that was just started and is then only pulled from, for ever *)

LivePlayCounts == {-1, 1, 2}

LiveInit ==
    /\ backend = OpenedBackend
    /\ music_spec_channels \in TargetChannels
    /\ handle = "music"
    /\ music = CreateResult(music_spec_channels, "none").m
    /\ song_length \in SongLengths
    /\ \E n \in LivePlayCounts :
          LET p == TIMIDITY_Play(n, song_length)
          IN  /\ play_count = p.play_count
              /\ song_playing = p.song_playing
              /\ song_pos = p.song_pos
              /\ hist = [NoHist EXCEPT !.started = TRUE, !.startCount = n,
                                       !.pure = TRUE, !.clean = TRUE]
    /\ stream = <<>>
    /\ volume = MIX_MAX_VOLUME
    /\ song_amp = DefaultAmplification
    /\ specs = CreateSpecs(music_spec_channels)
    /\ call = [NoCall EXCEPT !.op = "Play"]

\* a GetSome call whose Push succeeds; the bookkeeping is left alone
GetSomeLive(bytes) == GetSomeStep(bytes, TRUE) /\ UNCHANGED hist

LiveNext == \E bytes \in Requests : GetSomeLive(bytes)

\* the caller pulls again and again
LiveSpec == LiveInit /\ [][LiveNext]_vars /\ WF_vars(LiveNext)

----------------------------------------------------------------------------
(* A session that was just started and is pulled from for ever, where a    *)
(* Push may fail any number of times but succeeds again and again          *)

GetSomeRetry(bytes, pushOk) ==
    /\ GetSomeStep(bytes, pushOk)
    /\ LET o == GetSomeOutcome(bytes, pushOk)
       IN  hist' = [hist EXCEPT !.pushFailed = @ \/ o.ret < 0,
                                !.ends = @ + Ends(o)]

RetryNext == \E bytes \in Requests, pushOk \in BOOLEAN : GetSomeRetry(bytes, pushOk)

RetrySpec ==
    /\ LiveInit
    /\ [][RetryNext]_vars
    /\ WF_vars(\E bytes \in Requests : GetSomeRetry(bytes, TRUE))

----------------------------------------------------------------------------
(* Properties *)

WholeSong == [i \in 1..song_length |-> i]

IsPrefix(a, b) == Len(a) <= Len(b) /\ a = SubSeq(b, 1, Len(a))

\* started by Play(n) and since then only pulled from, no Push failed
PlainSession == hist.started /\ hist.pure /\ ~hist.pushFailed

\* C1: in a session started with Play(n), n > 0, and then only pulled from
\* with no Push failure, the count left is n minus the short productions of
\* the decoder so far, never more than n of them occur, and a call sets done
\* only when exactly n have occurred.
C1_ExactlyNCompletions ==
    (PlainSession /\ hist.startCount > 0) =>
        /\ hist.completions <= hist.startCount
        /\ play_count = hist.startCount - hist.completions
        /\ (call.done => hist.completions = hist.startCount)

C1_Witness ==
    /\ PlainSession /\ hist.startCount = 2 /\ hist.completions = 2
    /\ call.op = "GetSome" /\ call.done /\ music.stream = "live"

\* C2: once Stop was called, the decoder stays inactive until the user calls
\* Play again: no GetSome call restarts it.
C2_StopStaysStopped == hist.stopped => ~song_playing

\* C3: after a Stop that came while the count was nonzero and the decoder had
\* not reached the end of the data, no GetSome call sets done.
C3_StopNotExhaustion == hist.stoppedEarly => ~(call.op = "GetSome" /\ call.done)

\* C4: in a session started with a negative count and then only pulled from,
\* the count stays negative and no call sets done.
C4_InfiniteNeverDone ==
    (hist.started /\ hist.pure /\ hist.startCount < 0) =>
        (play_count < 0 /\ ~call.done)

C4_Witness ==
    /\ hist.started /\ hist.pure /\ hist.startCount < 0
    /\ hist.completions >= 2 /\ call.op = "GetSome"

C6_ByteAccounting ==
    (PlainSession /\ hist.clean /\ hist.startCount = 1) =>
        /\ hist.returned = Len(hist.delivered)
        /\ IsPrefix(hist.delivered, WholeSong)
        /\ (call.done => hist.delivered = WholeSong /\ hist.returned = song_length)

\* stream mode, a song of exactly one transfer unit
C6_Witness ==
    /\ PlainSession /\ hist.clean /\ hist.startCount = 1
    /\ call.op = "GetSome" /\ call.done
    /\ music.stream = "live" /\ song_length = buffer_size
    /\ hist.returned = song_length

\* C7: a GetSome call made while the stream holds bytes returns bytes of the
\* stream only, from its front and as many as were asked for or are there,
\* and does not invoke the decoder: count, position and activity are
\* unchanged, nothing is pushed, done is not set.
C7_DrainBeforeDecode ==
    [][(handle = "music" /\ music.stream # "null" /\ stream # <<>>
          /\ call'.op = "GetSome")
       => /\ ~call'.decoded
          /\ ~call'.done
          /\ call'.ret = Min(call'.bytes, Len(stream))
          /\ call'.out = SubSeq(stream, 1, call'.ret)
          /\ stream' = StreamRest(stream, call'.ret)
          /\ play_count' = play_count
          /\ song_pos' = song_pos
          /\ song_playing' = song_playing]_vars

\* a drain that left part of the buffered bytes for the next call
C7_Witness ==
    /\ call.op = "GetSome" /\ ~call.decoded /\ call.ret > 0
    /\ Len(call.out) = call.ret /\ stream # <<>>

\* C8: a GetSome call that sets done returns 0 and writes nothing; a call
\* that returns a nonzero value does not set done.
C8_DoneExcludesReturn ==
    (call.op = "GetSome") =>
        /\ (call.done => call.ret = 0 /\ call.out = <<>>)
        /\ (call.ret # 0 => ~call.done)

C8_Witness ==
    /\ call.op = "GetSome" /\ call.done /\ call.ret = 0
    /\ hist.started /\ hist.startCount # 0

\* C9: a session started with Play(1) and pulled from again and again
\* reaches a call that sets done, and from some point on every call sets
\* done and IsPlaying is false.
C9_PlayOnceThenIdle ==
    (hist.startCount = 1) => <>[](call.done /\ ~TIMIDITY_IsPlaying)

C9_Witness ==
    /\ hist.startCount = 1 /\ call.op = "GetSome" /\ call.done
    /\ ~TIMIDITY_IsPlaying /\ song_pos = song_length

\* what a failed construction must leave behind: everything allocated before
\* the failing step released once, the rest never allocated
Unwound(fail) ==
    [self   |-> IF fail = "calloc" THEN "null" ELSE "freed",
     song   |-> IF fail \in {"calloc", "load"} THEN "null" ELSE "freed",
     stream |-> IF fail = "buffer" THEN "freed" ELSE "null",
     buffer |-> "null"]

Fields == {"self", "song", "stream", "buffer"}

\* the step that was made to fail is one CreateFromIO goes through
FailureHit ==
    \/ call.fail \in {"calloc", "load"}
    \/ call.fail \in {"stream", "buffer"} /\ NeedStream(music_spec_channels)

\* C10: when CreateFromIO fails it returns null and has released, once, the
\* record and every part allocated before the failing step; Delete leaves
\* the record and every part that was present released once and touches no
\* absent part; nothing is ever released twice or without being allocated.
C10_AllOrNothing ==
    /\ \A f \in Fields : music[f] # "invalid_free"
    /\ (call.op = "CreateFromIO" /\ FailureHit => handle = "null")
    /\ (handle = "null" => FailureHit /\ music = Unwound(call.fail))
    /\ (call.op = "Delete" =>
           /\ music.self = "freed" /\ music.song = "freed"
           /\ \A f \in Fields : music[f] \in {"null", "freed"})
    /\ (handle # "music" => \A f \in Fields : music[f] # "live")

\* the scratch buffer could not be allocated: decoder and stream are released
C10_Witness ==
    /\ handle = "null" /\ call.op = "CreateFromIO" /\ call.fail = "buffer"
    /\ music.song = "freed" /\ music.stream = "freed" /\ music.buffer = "null"

\* C11 as claimed: the stream exists exactly when the song's channels differ
\* from the target's, and a stream takes a song of more than two channels
\* down to two.
C11_AdapterDownmixesToStereo ==
    (handle = "music") =>
        /\ (music.stream = "live" <=> specs.song # music_spec_channels)
        /\ (music.stream = "live" => specs.song > 2 /\ specs.stream_dst = 2)

\* C11, amended: the stream exists exactly when the target has more than two
\* channels; the song is then loaded with two channels and the stream takes
\* them to the target's channels.  Otherwise the song is loaded with the
\* target's channels and there is no stream.
C11_AdapterUpmixesFromStereo ==
    (handle = "music") =>
        /\ (music.stream = "live" <=> music_spec_channels > 2)
        /\ (music.stream = "live" <=> specs.song # music_spec_channels)
        /\ (music.stream = "live" =>
               /\ specs.song = 2
               /\ specs.stream_src = 2
               /\ specs.stream_dst = music_spec_channels)
        /\ (music.stream # "live" =>
               /\ music.stream = "null"
               /\ specs.song = music_spec_channels
               /\ specs.stream_src = 0 /\ specs.stream_dst = 0)

C11_Witness ==
    /\ handle = "music" /\ music_spec_channels = 6 /\ music.stream = "live"
    /\ specs.song = 2 /\ specs.stream_dst = 6

\* C12: the volume of a session lies in 0..MIX_MAX_VOLUME in every state,
\* after its creation and after any SetVolume calls.
C12_VolumeInRange ==
    (handle = "music") =>
        (0 <= TIMIDITY_GetVolume /\ TIMIDITY_GetVolume <= MIX_MAX_VOLUME)

\* C13: in every session CreateFromIO returned, up to its Delete, the scratch
\* buffer exists exactly when the stream exists.
C13_BufferIffStream ==
    (handle = "music") =>
        /\ (music.buffer = "live" <=> music.stream = "live")
        /\ music.buffer \in {"live", "null"}
        /\ music.stream \in {"live", "null"}

\* a session with stream and buffer that was started and pulled from
C13_Witness ==
    /\ handle = "music" /\ music.stream = "live" /\ music.buffer = "live"
    /\ call.op = "GetSome" /\ call.decoded

\* the configurations Open goes through on a build when nothing is set
Defaults(platform) ==
    IF platform = "win32"
    THEN <<TIMIDITY_CFG, BuiltinCfg>>
    ELSE <<TIMIDITY_CFG_ETC, TIMIDITY_CFG_FREEPATS, BuiltinCfg>>

\* C14: Open tries the environment variable's configuration alone when it is
\* set, else the user's alone when it is set, else the platform's defaults in
\* order and then the built-in one; every configuration tried before the last
\* failed, Open succeeds exactly when the last one tried initialised the
\* library, and it fails exactly when every candidate failed.
C14_OpenOrder ==
    (call.op = "Open") =>
        LET t == backend.tried
            candidates == IF backend.env # "none" THEN <<backend.env>>
                          ELSE IF backend.user # "none" THEN <<backend.user>>
                          ELSE Defaults(backend.platform)
        IN  /\ t # <<>>
            /\ IsPrefix(t, candidates)
            /\ \A i \in 1..(Len(t) - 1) : t[i] \notin backend.works
            /\ call.ret \in {0, -1}
            /\ (call.ret = 0 <=> t[Len(t)] \in backend.works)
            /\ (call.ret < 0 <=>
                   \A i \in 1..Len(candidates) : candidates[i] \notin backend.works)
            /\ (call.ret < 0 => t = candidates)
            /\ backend.opened = (call.ret = 0)

\* nothing set, the first default cannot be read, the second can: the
\* built-in configuration is not tried
C14_Witness ==
    /\ call.op = "Open" /\ backend.env = "none" /\ backend.user = "none"
    /\ backend.tried = <<TIMIDITY_CFG_ETC, TIMIDITY_CFG_FREEPATS>>
    /\ call.ret = 0 /\ BuiltinCfg \in backend.works

\* an end of the song the count does not show yet: the decoder is inactive
\* and play-throughs are left
PendingEnd == IF ~song_playing /\ play_count > 0 THEN 1 ELSE 0

\* C15: a GetSome call whose Push fails returns a negative value, does not set
\* done, and leaves the count and the session's parts as they were; in a
\* session started with a positive count n the count left is n minus the
\* ends of the song the decoder reached, but for an end reached in a failing
\* call that is counted by the next call that gets through; a call sets done
\* only after exactly n ends, and with retries one does.
C15_PushFailureRetry ==
    /\ [][(call'.op = "GetSome" /\ call'.put = "failed")
            => /\ call'.ret < 0
               /\ ~call'.done
               /\ play_count' = play_count
               /\ handle' = "music" /\ music' = music]_vars
    /\ []((hist.startCount > 0) =>
             /\ play_count = hist.startCount - hist.ends + PendingEnd
             /\ (call.done => hist.ends = hist.startCount))
    /\ ((hist.startCount > 0) => <>(call.op = "GetSome" /\ call.done))

\* two play-throughs with a failed Push on the way, all done
C15_Witness ==
    /\ hist.pushFailed /\ hist.startCount = 2 /\ hist.ends = 2
    /\ call.op = "GetSome" /\ call.done

\* C16: Play(n) leaves the count at n, the decoder active and the position
\* at zero, whatever the state before; a Seek(0) that follows it at once
\* changes nothing of the session, and Tell is 0 after either.
C16_PlayRewinds ==
    [][/\ (call'.op = "Play" =>
              /\ play_count' = hist'.startCount
              /\ song_playing'
              /\ song_pos' = 0
              /\ TIMIDITY_Tell' = 0)
       /\ (call.op = "Play" /\ call'.op = "Seek" /\ call'.ms = 0 =>
              /\ UNCHANGED <<handle, music, play_count, song_playing, song_pos,
                             song_length, stream, volume, song_amp, specs>>
              /\ TIMIDITY_Tell' = 0)]_vars

\* a Play on a session that was played before and stopped somewhere: its
\* stream still holds bytes of the earlier run
C16_Witness ==
    /\ call.op = "Play" /\ play_count = 2 /\ song_playing /\ song_pos = 0
    /\ stream # <<>>

\* C17: a GetSome call changes the count only when the decoder was invoked,
\* the Push (if any) succeeded and the decoder produced less than the unit
\* asked of it (buffer_size with a stream, the bytes asked for without): then
\* 1 becomes 0 with no restart, n > 1 becomes n - 1 and a negative count
\* stays negative, both with the decoder active again at position zero.  In
\* every other GetSome call the count is unchanged.
C17_CountChangesOnShortOnly ==
    [][(handle = "music" /\ call'.op = "GetSome") =>
         LET hasStream == music.stream = "live"
             unit      == IF hasStream THEN buffer_size ELSE call'.bytes
             amount    == IF hasStream THEN Len(stream') - Len(stream)
                          ELSE Len(call'.out)
             short     == call'.decoded /\ call'.put # "failed" /\ amount < unit
         IN  IF ~short THEN play_count' = play_count
             ELSE IF play_count = 1
             THEN play_count' = 0 /\ ~song_playing'
             ELSE /\ play_count # 0
                  /\ (play_count > 1 => play_count' = play_count - 1)
                  /\ (play_count < 0 => play_count' < 0)
                  /\ song_playing' /\ song_pos' = 0]_vars

\* the first of two play-throughs has ended and the second was started
C17_Witness ==
    /\ PlainSession /\ hist.startCount = 2 /\ hist.completions = 1
    /\ call.op = "GetSome" /\ call.decoded
    /\ play_count = 1 /\ song_playing /\ song_pos = 0

\* C18: with the count at 0 and nothing buffered, a GetSome call sets done,
\* returns 0, writes nothing and does not invoke the decoder or change the
\* session; so it is for every call until a Play changes the count, and after
\* a Play(0) too.
C18_ExhaustedStaysDone ==
    [][(handle = "music" /\ play_count = 0 /\ stream = <<>>
          /\ call'.op = "GetSome")
       => /\ call'.done
          /\ call'.ret = 0
          /\ call'.out = <<>>
          /\ ~call'.decoded
          /\ call'.put = "none"
          /\ UNCHANGED <<handle, music, play_count, song_playing, song_pos,
                         song_length, stream>>]_vars

\* done after Play(0), the decoder started but never asked for audio
C18_Witness ==
    /\ hist.started /\ hist.pure /\ hist.startCount = 0
    /\ call.op = "GetSome" /\ call.done /\ song_playing /\ play_count = 0

RECURSIVE Repeat(_, _)
Repeat(q, k) == IF k <= 0 THEN <<>> ELSE q \o Repeat(q, k - 1)

\* play-throughs that ended and were followed by a restart
Restarts ==
    hist.completions - (IF hist.startCount > 0 /\ play_count = 0 THEN 1 ELSE 0)

\* what the decoder has produced since Play, in the order of production:
\* the whole song for each play-through restarted, then the song up to where
\* the decoder is
AllProduced == Repeat(WholeSong, Restarts) \o Produced(0, song_pos)

\* started on an empty stream, only pulled from since, no Push failed
StreamSession == PlainSession /\ hist.clean /\ music.stream = "live"

\* C19: with a stream, a GetSome call that invokes the decoder and whose Push
\* succeeds finds the stream empty, leaves in it exactly the bytes the decoder
\* produced in this call, returns 0, writes nothing to the caller and does not
\* set done; and at any time the bytes delivered so far followed by the bytes
\* in the stream are the bytes the decoder produced, in their order.
C19_PushThenDrain ==
    /\ [][(handle = "music" /\ music.stream = "live"
             /\ call'.op = "GetSome" /\ call'.put = "ok")
           => LET d == Timidity_PlaySome(song_playing, song_pos, song_length,
                                         buffer_size)
              IN  /\ call'.decoded
                  /\ stream = <<>>
                  /\ stream' = Produced(song_pos, d.amount)
                  /\ call'.ret = 0
                  /\ call'.out = <<>>
                  /\ ~call'.done]_vars
    /\ [][(handle = "music" /\ music.stream = "live"
             /\ call'.op = "GetSome" /\ call'.decoded) => stream = <<>>]_vars
    /\ [](StreamSession => hist.delivered \o stream = AllProduced)

\* the second play-through is being delivered: bytes of it are out, others
\* wait in the stream
C19_Witness ==
    /\ StreamSession /\ hist.completions = 1 /\ song_pos = 2
    /\ call.op = "GetSome" /\ ~call.decoded /\ call.ret = 1 /\ Len(stream) = 1
    /\ Len(hist.delivered) = song_length + 1

\* C20: with a stream, a call sets done only when the stream is empty, and in
\* a session started with a positive count n on an empty stream and pulled
\* from with no Push failure, the bytes delivered when a call sets done are n
\* times the whole song.
C20_NothingLostAtEnd ==
    /\ (call.op = "GetSome" /\ call.done => stream = <<>>)
    /\ (StreamSession /\ hist.startCount > 0 /\ call.done =>
           hist.delivered = Repeat(WholeSong, hist.startCount))

\* a song whose last unit came up short, delivered to the end before done
C20_Witness ==
    /\ StreamSession /\ hist.startCount = 1 /\ song_length = buffer_size + 1
    /\ call.op = "GetSome" /\ call.done /\ hist.delivered = WholeSong

====
